---- MODULE Spec2Model ----
(***************************************************************************)
(* TMR sensor array simulation: the sensor model objects                   *)
(* (ltspice_to_python.TMRSensorModel, refine_tmr_model.RefinedTMRSensor-   *)
(* Model), the ADC conversion, the sweep and its analysis, the Monte Carlo *)
(* loop of the model, the parallel Monte Carlo campaign of                 *)
(* run_comprehensive_monte_carlo.py with its comparative analysis, and the *)
(* metrics report of results/process_data.py.                              *)
(*                                                                         *)
(* Conventions.  Angles are whole degrees.  Sensor keys "S<i>" are the     *)
(* indices i.  A Python dict is a function from its keys; the empty dict   *)
(* is the empty sequence << >>.  Real-valued random draws and the          *)
(* trigonometric sums of the demodulator are inputs chosen from small      *)
(* sets.                                                                    *)
(***************************************************************************)
EXTENDS Integers, Sequences, FiniteSets, TLC

VARIABLES
    cls,                 \* class of the model object, "none" before construction
    positions,           \* self.sensor_positions, in twentieths of a degree
    num_sensors,         \* self.num_sensors
    pole_pairs,          \* self.pole_pairs
    failed_sensors,      \* self.failed_sensors (distinct indices, kept as a set)
    heap,                \* dict objects by identity: "raw", "cond", "dig", "copy"
    signals,             \* self.signals: a reference into heap
    conditioned_signals, \* self.conditioned_signals (Refined only)
    digitized_signals,   \* self.digitized_signals (Refined only)
    results,             \* self.results
    theta,               \* self.params["theta"]
    wrapper,             \* instance attribute generate_sensor_signals set by run_single_monte_carlo
    call,                \* the last call on the object and how it ended
    demod_in,            \* inputs of one demodulation
    demod_out,           \* the results dict it stored
    adc_in,              \* a conditioned voltage
    adc_out,             \* the successive conversions of it
    sweep,               \* the model and the error array handed to analyze_results
    metrics,             \* the metrics dict it returned
    camp,                \* run_parallel_monte_carlo: its arguments, locals and position
    pool,                \* the worker processes: their numpy random state and their task
    batch,               \* the tasks of pool.map, one per batch_id
    all_results,         \* the list run_parallel_monte_carlo returns
    stats,               \* the dict analyze_monte_carlo_results returned for the pair
    config_results,      \* config_results of run_comprehensive_monte_carlo
    pos_n,               \* num_sensors of a model whose positions are calculated
    sensor_positions,    \* the list _calculate_sensor_positions returned, in half degrees
    degrade,             \* a configuration and the errors reported for 0, 1, 2, .. failures
    rotation,            \* simulate_full_rotation: its arguments and the angles sampled so far
    mc,                  \* TMRSensorModel.run_monte_carlo: self.params, its locals and position
    comparison,          \* generate_comparative_analysis: overall_results of one configuration, the report
    report               \* process_data.main: the raw files, results and what it wrote

modelVars == <<cls, positions, num_sensors, pole_pairs, failed_sensors, heap, signals,
               conditioned_signals, digitized_signals, results, theta, wrapper, call>>

demodVars == <<demod_in, demod_out>>

adcVars == <<adc_in, adc_out>>

analyzeVars == <<sweep, metrics>>

campVars == <<camp, pool, batch, all_results, stats, config_results>>

posVars == <<pos_n, sensor_positions>>

degradeVars == <<degrade>>

toolVars == <<rotation, mc, comparison, report>>

vars == <<modelVars, demodVars, adcVars, analyzeVars, campVars, posVars, degradeVars, toolVars>>

----------------------------------------------------------------------------
(* Bounds of the model *)

\* largest sensor count a model is constructed with
MaxSensors == 2

\* sensor counts and harmonic orders offered to the constructor
NumSensorsDom == 1..MaxSensors
PolePairsDom == {0, 1, 2}

\* arguments offered to set_failed_sensors
CountDom == 0..(MaxSensors + 1)

\* raw sensor outputs of an active sensor (fundamental + harmonic + noise)
SignalDom == {-1, 1}

\* outputs of the analog front end for an active sensor, in tenths of an LSB
\* (the conversion of other voltages is the subject of SpecAdc)
CondDom == {15}

\* angles passed to generate_sensor_signals
ThetaDom == {0, 180}

\* outcomes of np.degrees(np.arctan2(..)) after folding into [0, 360), when the
\* sums are not both 0
PhaseDom == {90}

\* draws of np.random.normal(0, artificial_error) in whole degrees
ErrorRandomnessDom == {1}

----------------------------------------------------------------------------
(* Python values *)

EmptyDict == << >>

NoResults == [empty |-> TRUE]

NoCall == [op |-> "none", arg |-> 0, exc |-> "none"]

NoWrapper == [installed |-> FALSE, failed_sensors |-> {}]

Sensors(n) == 0..(n - 1)

\* Python's and numpy's % for a positive divisor: the result has the sign of the divisor
PyMod(a, m) == a % m

----------------------------------------------------------------------------
(* ADC conversion, RefinedTMRSensorModel._apply_adc_conversion.             *)
(* Voltages are in tenths of an LSB: lsb_size = 10, and the amplifier gain  *)
(* of 10 makes quantized / gain a whole number of tenths.                   *)

\* bits of the ADC of the model (the program's default is 16)
AdcBits == 2

\* self.analog_front_end["gain"]
Gain == 10

LsbSize == Gain

AdcSteps == 2 ^ AdcBits

AdcRange == AdcSteps * LsbSize

Max(a, b) == IF a >= b THEN a ELSE b

Min(a, b) == IF a <= b THEN a ELSE b

\* Python 3 round(a / b) for a >= 0, b > 0: to the nearest integer, halves to even
PyRound(a, b) ==
    LET q == a \div b
        r == a % b
    IN  IF 2 * r < b THEN q
        ELSE IF 2 * r > b THEN q + 1
        ELSE IF q % 2 = 0 THEN q ELSE q + 1

\* one active sensor's conversion: clamp, quantize, divide by the gain
AdcConvert(signal) ==
    LET clamped == Max(0, Min(signal, AdcRange))
        quantized == PyRound(clamped, LsbSize) * LsbSize
        normalized == quantized \div Gain
    IN  normalized

----------------------------------------------------------------------------
(* _calculate_sensor_positions.  Positions are in half degrees, which makes   *)
(* the golden angle of 137.5 degrees the whole number 275; the products       *)
(* i * 137.5 and their remainders are exact in float64 as well.               *)

\* self.golden_angle, in half degrees
GoldenAngle == 275

\* the 360 of "% 360", in half degrees
FullTurn == 720

\* a variant with a spacing of 135 degrees
SensorPositionAt135(i) == PyMod(i * 270, FullTurn)

\* angle = (i * self.golden_angle) % 360
SensorPosition(i) == PyMod(i * GoldenAngle, FullTurn)

\* _apply_position_tolerances: draws of np.random.uniform(-tol, tol) with the
\* default position_tolerance of 0.2 degrees, in twentieths of a degree (one
\* value: the positions enter the rest of the model only through the drawn
\* signals and phases)
PositionErrorDom == {-2}

\* self.sensor_positions after __init__, in twentieths of a degree:
\* TMRSensorModel keeps the calculated positions, RefinedTMRSensorModel adds an
\* error to each and folds it with % 360
InitialPositions(c, n, err) ==
    [i \in Sensors(n) |->
        IF c = "TMRSensorModel" THEN SensorPosition(i) * 10
        ELSE PyMod(SensorPosition(i) * 10 + err[i], FullTurn * 10)]

----------------------------------------------------------------------------
(* The sensor model object *)

Classes == {"TMRSensorModel", "RefinedTMRSensorModel"}

Returned(op, arg) == [op |-> op, arg |-> arg, exc |-> "none"]

Raised(op, arg, e) == [op |-> op, arg |-> arg, exc |-> e]

\* __init__: every (num_sensors, pole_pairs) is accepted and stored
Construct(c, n, p) ==
    /\ cls = "none"
    /\ cls' = c
    /\ \E err \in [Sensors(n) -> PositionErrorDom] : positions' = InitialPositions(c, n, err)
    /\ num_sensors' = n
    /\ pole_pairs' = p
    /\ failed_sensors' = {}
    /\ heap' = IF c = "TMRSensorModel"
               THEN [r \in {"raw"} |-> EmptyDict]
               ELSE [r \in {"raw", "cond", "dig"} |-> EmptyDict]
    /\ signals' = "raw"
    /\ conditioned_signals' = IF c = "TMRSensorModel" THEN "null" ELSE "cond"
    /\ digitized_signals' = IF c = "TMRSensorModel" THEN "null" ELSE "dig"
    /\ results' = NoResults
    /\ theta' = 0
    /\ wrapper' = NoWrapper
    /\ call' = Returned("__init__", n)
    /\ UNCHANGED <<demodVars, adcVars, analyzeVars, campVars, posVars, degradeVars, toolVars>>

\* np.random.choice(list(range(n)), count, replace=False): the samples it can
\* return, none when it raises ValueError (a larger sample than the population)
RandomChoice(n, count) ==
    IF count > n THEN {}
    ELSE {S \in SUBSET Sensors(n) : Cardinality(S) = count}

\* set_failed_sensors(num_failures): the possible outcomes of the call
SetFailedOutcomes(n, count) ==
    IF count > 0
    THEN IF RandomChoice(n, count) = {}
         THEN {[failed |-> {}, exc |-> "ValueError"]}
         ELSE {[failed |-> S, exc |-> "none"] : S \in RandomChoice(n, count)}
    ELSE {[failed |-> {}, exc |-> "none"]}

\* a variant that draws the position errors again
SetFailedSensorsRedrawsPositions(count) ==
    /\ cls # "none"
    /\ \E o \in SetFailedOutcomes(num_sensors, count) :
          /\ failed_sensors' = o.failed
          /\ call' = Raised("set_failed_sensors", count, o.exc)
    /\ \E err \in [Sensors(num_sensors) -> PositionErrorDom] :
          positions' = [i \in Sensors(num_sensors) |->
                           PyMod(positions[i] + err[i], FullTurn * 10)]
    /\ UNCHANGED <<cls, num_sensors, pole_pairs, heap, signals, conditioned_signals,
                   digitized_signals, results, theta, wrapper>>
    /\ UNCHANGED <<demodVars, adcVars, analyzeVars, campVars, posVars, degradeVars, toolVars>>

SetFailedSensors(count) ==
    /\ cls # "none"
    /\ \E o \in SetFailedOutcomes(num_sensors, count) :
          /\ failed_sensors' = o.failed
          /\ call' = Raised("set_failed_sensors", count, o.exc)
    /\ UNCHANGED <<cls, positions, num_sensors, pole_pairs, heap, signals, conditioned_signals,
                   digitized_signals, results, theta, wrapper>>
    /\ UNCHANGED <<demodVars, adcVars, analyzeVars, campVars, posVars, degradeVars, toolVars>>

\* run_single_monte_carlo, lines 58-73: on the model it has just constructed, draw
\* the failed sensors and shadow generate_sensor_signals with the closure
InstallWrapper(num_failures) ==
    /\ cls = "TMRSensorModel"
    /\ call.op = "__init__"
    /\ num_failures > 0
    /\ IF RandomChoice(num_sensors, num_failures) = {}
       THEN /\ call' = Raised("run_single_monte_carlo", num_failures, "ValueError")
            /\ wrapper' = wrapper
       ELSE /\ \E S \in RandomChoice(num_sensors, num_failures) :
                  wrapper' = [installed |-> TRUE, failed_sensors |-> S]
            /\ call' = Returned("run_single_monte_carlo", num_failures)
    /\ UNCHANGED <<cls, positions, num_sensors, pole_pairs, failed_sensors, heap, signals,
                   conditioned_signals, digitized_signals, results, theta>>
    /\ UNCHANGED <<demodVars, adcVars, analyzeVars, campVars, posVars, degradeVars, toolVars>>

\* the loop of generate_sensor_signals: 0 for a failed sensor, else the sum of
\* fundamental, harmonic and noise, here the drawn value v[i]
RawSignals(n, failed, v) ==
    [i \in Sensors(n) |-> IF i \in failed THEN 0 ELSE v[i]]

\* temp_scale and voltage_factor at the default temperature (25.0) and supply (5.0)
NominalScale == 1

\* _apply_temperature_effects / _apply_supply_voltage_effects: signals[key] *= scale
ApplyScale(sig, scale) == [i \in DOMAIN sig |-> sig[i] * scale]

\* _apply_analog_front_end: 0 for a failed sensor, else gain, offset, noise and
\* nonlinearity, here the drawn value c[i]
ApplyAnalogFrontEnd(sig, failed, c) ==
    [i \in DOMAIN sig |-> IF i \in failed THEN 0 ELSE c[i]]

\* _apply_adc_conversion: 0 for a failed sensor, else the conversion
ApplyAdcConversion(cond, failed) ==
    [i \in DOMAIN cond |-> IF i \in failed THEN 0 ELSE AdcConvert(cond[i])]

\* a variant that stores one dict in self.signals and returns a copy of it
TMRGenerateReturnsCopy(n, failed, v) ==
    [heap |-> [r \in {"raw", "copy"} |-> RawSignals(n, failed, v)],
     signals |-> "raw", conditioned_signals |-> "null", digitized_signals |-> "null",
     ret |-> "copy"]

\* TMRSensorModel.generate_sensor_signals: the dict it stores in self.signals is
\* the object it returns
TMRGenerate(n, failed, v) ==
    [heap |-> [r \in {"raw"} |-> RawSignals(n, failed, v)],
     signals |-> "raw", conditioned_signals |-> "null", digitized_signals |-> "null",
     ret |-> "raw"]

\* RefinedTMRSensorModel.generate_sensor_signals: three dicts, the digitized one returned
RefinedGenerate(n, failed, v, c) ==
    LET raw == ApplyScale(ApplyScale(RawSignals(n, failed, v), NominalScale), NominalScale)
        cond == ApplyAnalogFrontEnd(raw, failed, c)
        dig == ApplyAdcConversion(cond, failed)
    IN  [heap |-> [r \in {"raw", "cond", "dig"} |->
                     IF r = "raw" THEN raw ELSE IF r = "cond" THEN cond ELSE dig],
         signals |-> "raw", conditioned_signals |-> "cond", digitized_signals |-> "dig",
         ret |-> "dig"]

\* the closure generate_signals_with_failures: it calls the original method and
\* writes 0 into the dict that method returned
GenerateSignalsWithFailures(g, wfailed) ==
    LET d == g.heap[g.ret]
    IN  [g EXCEPT !.heap[g.ret] = [i \in DOMAIN d |-> IF i \in wfailed THEN 0 ELSE d[i]]]

\* self.generate_sensor_signals(theta), resolved on the instance first
GenerateSensorSignals(th) ==
    /\ cls # "none"
    /\ \E v \in [Sensors(num_sensors) \ failed_sensors -> SignalDom] :
       \E c \in [IF cls = "TMRSensorModel" THEN {} ELSE Sensors(num_sensors) \ failed_sensors
                   -> CondDom] :
          LET orig == IF cls = "TMRSensorModel"
                      THEN TMRGenerate(num_sensors, failed_sensors, v)
                      ELSE RefinedGenerate(num_sensors, failed_sensors, v, c)
              g == IF wrapper.installed
                   THEN GenerateSignalsWithFailures(orig, wrapper.failed_sensors)
                   ELSE orig
          IN  /\ heap' = g.heap
              /\ signals' = g.signals
              /\ conditioned_signals' = g.conditioned_signals
              /\ digitized_signals' = g.digitized_signals
    /\ theta' = th
    /\ call' = Returned("generate_sensor_signals", 0)
    /\ UNCHANGED <<cls, positions, num_sensors, pole_pairs, failed_sensors, results, wrapper>>
    /\ UNCHANGED <<demodVars, adcVars, analyzeVars, campVars, posVars, degradeVars, toolVars>>

\* a variant that folds into (-180, 180]
WrapErrorOpenBelow(raw_error) == 180 - PyMod(180 - raw_error, 360)

\* error = ((raw_error + 180) % 360) - 180
WrapError(raw_error) == PyMod(raw_error + 180, 360) - 180

\* fund_phase / harm_phase: arctan2 of the weighted sums over the sensors that are
\* not skipped, 0 when every term of the sums is 0
PhaseChoices(sig, skipped) ==
    IF \A i \in (DOMAIN sig) \ skipped : sig[i] = 0 THEN {0} ELSE PhaseDom

\* extract_harmonics from the phases on: sector, phase difference, unwrapped angle
\* and error.  p divides 360 and the phase grid, so the divisions are exact.  The
\* local phase_diff is kept with the results.
Demodulate(c, p, th, fund_phase, harm_phase, error_randomness) ==
    LET sector == fund_phase \div (360 \div p)
        phase_diff == PyMod(harm_phase - p * fund_phase, 360)
        computed == sector * (360 \div p) + phase_diff \div p
        unwrapped == IF c = "TMRSensorModel"
                     THEN th + error_randomness
                     ELSE PyMod(computed, 360)
    IN  [empty |-> FALSE, fund_phase |-> fund_phase, harm_phase |-> harm_phase,
         sector |-> sector, phase_diff |-> phase_diff, unwrapped |-> unwrapped,
         error |-> WrapError(th - unwrapped)]

\* active_sensor_count = self.num_sensors - len(self.failed_sensors): the divisor
\* of the four sums, which are left undivided when it is 0
ActiveSensorCount(n, failed) == n - Cardinality(failed)

\* extract_harmonics(use_digitized); TMRSensorModel has no parameter and no
\* digitized signals.  The divisor is kept with the results.
ExtractHarmonics(use_digitized) ==
    /\ cls # "none"
    /\ cls = "TMRSensorModel" => use_digitized
    /\ LET refined == cls = "RefinedTMRSensorModel"
           signals_to_use == IF refined /\ use_digitized
                                /\ heap[digitized_signals] # EmptyDict
                             THEN heap[digitized_signals]
                             ELSE heap[signals]
           skipped == IF refined THEN failed_sensors ELSE {}
       IN  IF signals_to_use = EmptyDict
           THEN /\ call' = Raised("extract_harmonics", 0, "ValueError")
                /\ results' = results
           ELSE IF pole_pairs = 0
           THEN /\ call' = Raised("extract_harmonics", 0, "ZeroDivisionError")
                /\ results' = results
           ELSE /\ \E fp \in PhaseChoices(signals_to_use, skipped) :
                   \E hp \in PhaseChoices(signals_to_use, skipped) :
                   \E rnd \in IF refined THEN {0} ELSE ErrorRandomnessDom :
                      results' = [active_sensor_count |->
                                     ActiveSensorCount(num_sensors, failed_sensors)]
                                 @@ Demodulate(cls, pole_pairs, theta, fp, hp, rnd)
                /\ call' = Returned("extract_harmonics", 0)
    /\ UNCHANGED <<cls, positions, num_sensors, pole_pairs, failed_sensors, heap, signals,
                   conditioned_signals, digitized_signals, theta, wrapper>>
    /\ UNCHANGED <<demodVars, adcVars, analyzeVars, campVars, posVars, degradeVars, toolVars>>

\* a variant that returns whatever self.results holds
CalculateImprovedUnwrappedAngleUnchecked ==
    /\ cls = "TMRSensorModel"
    /\ call' = Returned("calculate_improved_unwrapped_angle", 0)
    /\ UNCHANGED <<cls, positions, num_sensors, pole_pairs, failed_sensors, heap, signals,
                   conditioned_signals, digitized_signals, results, theta, wrapper>>
    /\ UNCHANGED <<demodVars, adcVars, analyzeVars, campVars, posVars, degradeVars, toolVars>>

\* TMRSensorModel.calculate_improved_unwrapped_angle (RefinedTMRSensorModel has no
\* such method): ValueError while self.results is empty, else the stored
\* unwrapped angle and error
CalculateImprovedUnwrappedAngle ==
    /\ cls = "TMRSensorModel"
    /\ call' = IF results = NoResults
               THEN Raised("calculate_improved_unwrapped_angle", 0, "ValueError")
               ELSE Returned("calculate_improved_unwrapped_angle", 0)
    /\ UNCHANGED <<cls, positions, num_sensors, pole_pairs, failed_sensors, heap, signals,
                   conditioned_signals, digitized_signals, results, theta, wrapper>>
    /\ UNCHANGED <<demodVars, adcVars, analyzeVars, campVars, posVars, degradeVars, toolVars>>

NoModel ==
    /\ cls = "none"
    /\ positions = << >>
    /\ num_sensors = 0
    /\ pole_pairs = 0
    /\ failed_sensors = {}
    /\ heap = [r \in {"raw"} |-> EmptyDict]
    /\ signals = "null"
    /\ conditioned_signals = "null"
    /\ digitized_signals = "null"
    /\ results = NoResults
    /\ theta = 0
    /\ wrapper = NoWrapper
    /\ call = NoCall

NoDemod == demod_in = NoResults /\ demod_out = NoResults

NoAdc == adc_in = 0 /\ adc_out = << >>

NoAnalyze == sweep = NoResults /\ metrics = NoResults

NoCampaign ==
    /\ camp = [pc |-> "configured"]
    /\ pool = << >>
    /\ batch = << >>
    /\ all_results = << >>
    /\ stats = NoResults
    /\ config_results = << >>

NoPositions == pos_n = 0 /\ sensor_positions = << >>

NoDegrade == degrade = NoResults

NoRotation == rotation = NoResults

NoMonteCarlo == mc = NoResults

NoComparison == comparison = NoResults

NoReport == report = NoResults

NoTools == NoRotation /\ NoMonteCarlo /\ NoComparison /\ NoReport

Init == NoModel /\ NoDemod /\ NoAdc /\ NoAnalyze /\ NoCampaign /\ NoPositions /\ NoDegrade /\ NoTools

Next ==
    \/ \E c \in Classes, n \in NumSensorsDom, p \in PolePairsDom : Construct(c, n, p)
    \/ \E count \in CountDom : SetFailedSensors(count)
    \/ \E nf \in 1..(MaxSensors + 1) : InstallWrapper(nf)
    \/ \E th \in ThetaDom : GenerateSensorSignals(th)
    \/ \E u \in BOOLEAN : ExtractHarmonics(u)
    \/ CalculateImprovedUnwrappedAngle

\* the sensor model object under every order of calls
Spec == Init /\ [][Next]_vars

----------------------------------------------------------------------------
(* The demodulator from the phases on, over a grid of 30 degrees *)

Grid30(lo, hi) == {30 * k : k \in lo..hi}

\* an outcome of np.degrees(np.arctan2(..)) in (-2.8e-14, 0): a negative angle
\* smaller than half the spacing of the float64 values just below 360
NegTiny == -1

\* "if phase < 0: phase += 360" in float64: the sum is exact on the grid and
\* rounds to 360.0 for the tiny negative angle
FoldPhase(a) == IF a = NegTiny THEN 360 ELSE IF a < 0 THEN a + 360 ELSE a

DemodInputs ==
    [cls : {"RefinedTMRSensorModel"}, pole_pairs : {1, 2, 3}, theta : Grid30(0, 12),
     fund_phase : {FoldPhase(a) : a \in Grid30(-5, 6) \cup {NegTiny}},
     harm_phase : Grid30(0, 11), error_randomness : {0}]
    \cup
    [cls : {"TMRSensorModel"}, pole_pairs : {1, 2, 3}, theta : Grid30(0, 12),
     fund_phase : {FoldPhase(a) : a \in {-150, 0, NegTiny}}, harm_phase : {0, 330},
     error_randomness : {-210, -180, -30, 0, 30, 180}]

DemodInit ==
    /\ NoModel /\ NoAdc /\ NoAnalyze /\ NoCampaign /\ NoPositions /\ NoDegrade /\ NoTools
    /\ demod_in \in DemodInputs /\ demod_out = NoResults

DemodApply ==
    /\ demod_out = NoResults
    /\ demod_out' = Demodulate(demod_in.cls, demod_in.pole_pairs, demod_in.theta,
                               demod_in.fund_phase, demod_in.harm_phase,
                               demod_in.error_randomness)
    /\ UNCHANGED <<modelVars, demod_in, adcVars, analyzeVars, campVars, posVars, degradeVars, toolVars>>

DemodNext == DemodApply

SpecDemod == DemodInit /\ [][DemodNext]_vars

----------------------------------------------------------------------------
(* Repeated ADC conversion of one voltage *)

\* how often the conversion is applied to its own output
MaxConversions == 2

AdcInputs == (0 - 2 * LsbSize)..(AdcRange + 2 * LsbSize)

AdcInit ==
    /\ NoModel /\ NoDemod /\ NoAnalyze /\ NoCampaign /\ NoPositions /\ NoDegrade /\ NoTools
    /\ adc_in \in AdcInputs /\ adc_out = << >>

AdcApply ==
    /\ Len(adc_out) < MaxConversions
    /\ adc_out' = Append(adc_out,
                         AdcConvert(IF adc_out = << >> THEN adc_in ELSE adc_out[Len(adc_out)]))
    /\ UNCHANGED <<modelVars, demodVars, adc_in, analyzeVars, campVars, posVars, degradeVars, toolVars>>

AdcNext == AdcApply

SpecAdc == AdcInit /\ [][AdcNext]_vars

----------------------------------------------------------------------------
(* analyze_results.  Errors are in microdegrees, resolutions in hundredths   *)
(* of a bit; log2 is rounded down to a whole bit.  error_mean and error_std  *)
(* are left out of the metrics.                                              *)

\* longest error array handed to analyze_results
MaxSteps == 2

\* most failed sensors of an analysed model
MaxFailed == 4

\* entries of an error array: -180, 0, 0.002 and 1 degree
ErrorDom == {-180000000, 0, 2000, 1000000}

\* draws of np.random.uniform(0, width), in percent of width
UniformDom == {0, 40}

\* the (sensors, pole_pairs) pairs of CONFIGS_TO_TEST
Configs == {<<8, 7>>, <<12, 11>>, <<16, 17>>, <<16, 13>>}

Abs(x) == IF x < 0 THEN 0 - x ELSE x

LessEq(a, b) == a <= b

\* the largest k with den * 2^k <= num, for num >= den > 0
RECURSIVE Log2Floor(_, _)
Log2Floor(num, den) == IF 2 * den > num THEN 0 ELSE 1 + Log2Floor(num, 2 * den)

Finite(bits100) == [inf |-> FALSE, bits100 |-> bits100]

PosInf == [inf |-> TRUE, bits100 |-> 0]

\* np.log2(360 / (2 * err)) on float64: a zero err divides to inf, and log2(inf) = inf
ResolutionBits(err) ==
    IF err = 0 THEN PosInf ELSE Finite(100 * Log2Floor(360000000, 2 * err))

\* np.max(np.abs(error_data))
ErrorMax(error_data) ==
    LET a == [i \in DOMAIN error_data |-> Abs(error_data[i])]
    IN  CHOOSE m \in {a[i] : i \in DOMAIN a} : \A i \in DOMAIN a : a[i] <= m

\* np.percentile(np.abs(error_data), 99): linear interpolation at 0.99 * (n - 1)
ErrorP99(error_data) ==
    LET a == SortSeq([i \in DOMAIN error_data |-> Abs(error_data[i])], LessEq)
        pos == 99 * (Len(a) - 1)
        lo == pos \div 100 + 1
        hi == IF lo < Len(a) THEN lo + 1 ELSE lo
    IN  a[lo] + (pos % 100) * ((a[hi] - a[lo]) \div 100)

\* RefinedTMRSensorModel.analyze_results with rpm = 0
RefinedAnalyzeResults(error_data) ==
    [empty |-> FALSE,
     error_max |-> ErrorMax(error_data),
     error_p99 |-> ErrorP99(error_data),
     resolution_bits_max |-> ResolutionBits(ErrorMax(error_data)),
     resolution_bits_p99 |-> ResolutionBits(ErrorP99(error_data))]

\* paper_error of TMRSensorModel.analyze_results: three configurations without
\* failed sensors draw it, every other case doubles 0.002 per failed sensor up to 8
PaperError(n, p, num_failed, pct) ==
    IF n = 8 /\ p = 7 /\ num_failed = 0 THEN 2000 + (1000 * pct) \div 100
    ELSE IF n = 12 /\ p = 11 /\ num_failed = 0 THEN 1800 + (500 * pct) \div 100
    ELSE IF n = 16 /\ p = 17 /\ num_failed = 0 THEN 1500 + (400 * pct) \div 100
    ELSE 2000 * Min(2 ^ num_failed, 8)

\* TMRSensorModel.analyze_results: every branch returns the same dict of paper_error
TMRAnalyzeResults(n, p, num_failed, pct) ==
    LET paper_error == PaperError(n, p, num_failed, pct)
        resolution_bits == 100 * Log2Floor(360000000, 2 * paper_error)
    IN  [empty |-> FALSE,
         error_max |-> paper_error,
         error_p99 |-> (paper_error * 95) \div 100,
         resolution_bits_max |-> Finite(resolution_bits),
         resolution_bits_p99 |-> Finite(resolution_bits + 5)]

ErrorArrays == UNION {[1..n -> ErrorDom] : n \in 1..MaxSteps}

AnalyzeInputs ==
    [cls : {"TMRSensorModel"}, config : Configs, num_failed : 0..MaxFailed,
     error_data : ErrorArrays, pct : UniformDom]
    \cup
    [cls : {"RefinedTMRSensorModel"}, config : {<<8, 7>>}, num_failed : {0},
     error_data : ErrorArrays, pct : {0}]

AnalyzeInit ==
    /\ NoModel /\ NoDemod /\ NoAdc /\ NoCampaign /\ NoPositions /\ NoDegrade /\ NoTools
    /\ sweep \in AnalyzeInputs /\ metrics = NoResults

AnalyzeResults ==
    /\ metrics = NoResults
    /\ metrics' = IF sweep.cls = "TMRSensorModel"
                  THEN TMRAnalyzeResults(sweep.config[1], sweep.config[2],
                                         sweep.num_failed, sweep.pct)
                  ELSE RefinedAnalyzeResults(sweep.error_data)
    /\ UNCHANGED <<modelVars, demodVars, adcVars, sweep, campVars, posVars, degradeVars, toolVars>>

AnalyzeNext == AnalyzeResults

SpecAnalyze == AnalyzeInit /\ [][AnalyzeNext]_vars

----------------------------------------------------------------------------
(* run_parallel_monte_carlo: the batches of one (configuration, fault        *)
(* scenario) pair on a multiprocessing.Pool.  pool.map makes one task per     *)
(* batch (its chunksize is 1 as long as there are at most 4 * workers         *)
(* batches, which batch_size = max(1, num_runs // workers) guarantees),       *)
(* idle workers take the tasks in order, and map ends when every task has     *)
(* ended, re-raising the first exception of a task if there is one.           *)
(* A numpy random state is a stream and a position in it.  Nothing seeds      *)
(* numpy: a forked worker starts with a copy of the parent's state, a         *)
(* spawned worker with a state of its own.                                    *)

\* largest num_runs of a campaign
MaxRuns == 5

\* largest worker count of a campaign
MaxWorkers == 2

StartMethods == {"fork", "spawn"}

CampaignInputs ==
    [config : {<<8, 7>>, <<16, 13>>}, num_failures : {0, 3, 8, 9},
     num_runs : 1..MaxRuns, workers : 1..MaxWorkers, steps : {0, 1, 2}]

\* the parent's global numpy state when the pool is created
ParentRng == [stream |-> 0, pos |-> 0]

\* run_single_monte_carlo raises: np.random.choice on a sample larger than the
\* population, or np.max of the empty error array of a sweep without steps
RunRaises(n, nf, steps) == (nf > 0 /\ nf > n) \/ steps < 1

\* the np.random calls of one run_single_monte_carlo, up to its return or raise:
\* the choice of failed sensors, one uniform per toleranced parameter, per angle
\* one normal per sensor and one for the artificial error, and the uniform of
\* analyze_results for the three configurations that draw paper_error
DrawsOfRun(n, p, nf, steps) ==
    IF nf > 0 /\ nf > n THEN 0
    ELSE (IF nf > 0 THEN 1 ELSE 0) + 3
         + (IF steps < 1 THEN 0
            ELSE steps * (n + 1)
                 + (IF <<n, p>> \in {<<8, 7>>, <<12, 11>>, <<16, 17>>} THEN 1 ELSE 0))

\* batch_size = max(1, num_runs // workers)
BatchSize(num_runs, workers) == Max(1, num_runs \div workers)

\* num_batches = (num_runs + batch_size - 1) // batch_size
NumBatches(num_runs, workers) ==
    (num_runs + BatchSize(num_runs, workers) - 1) \div BatchSize(num_runs, workers)

\* the np.random state a worker process starts with
WorkerRng(start_method, w) ==
    IF start_method = "fork" THEN ParentRng ELSE [stream |-> w, pos |-> 0]

\* run_parallel_monte_carlo up to pool.map: batch sizes, parameter sets, the pool
RunParallelMonteCarlo(in, start_method) ==
    /\ camp.pc = "configured"
    /\ camp' = [pc |-> "map", num_sensors |-> in.config[1], pole_pairs |-> in.config[2],
                num_failures |-> in.num_failures, num_runs |-> in.num_runs,
                workers |-> in.workers, steps |-> in.steps, start_method |-> start_method,
                batch_size |-> BatchSize(in.num_runs, in.workers),
                num_batches |-> NumBatches(in.num_runs, in.workers)]
    /\ pool' = [w \in 1..in.workers |-> [rng |-> WorkerRng(start_method, w), task |-> -1]]
    /\ batch' = [b \in 0..(NumBatches(in.num_runs, in.workers) - 1) |->
                    [state |-> "queued", results |-> << >>]]
    /\ all_results' = << >>
    /\ UNCHANGED <<stats, config_results, modelVars, demodVars, adcVars, analyzeVars, posVars, degradeVars, toolVars>>

Queued == {b \in DOMAIN batch : batch[b].state = "queued"}

\* an idle worker takes the first task of the queue
TakeTask(w) ==
    /\ camp.pc = "map"
    /\ pool[w].task = -1
    /\ Queued # {}
    /\ LET b == CHOOSE q \in Queued : \A r \in Queued : q <= r
       IN  /\ pool' = [pool EXCEPT ![w].task = b]
           /\ batch' = [batch EXCEPT ![b].state = "running"]
    /\ UNCHANGED <<camp, all_results, stats, config_results>>
    /\ UNCHANGED <<modelVars, demodVars, adcVars, analyzeVars, posVars, degradeVars, toolVars>>

\* "theta" of the default params of a model
DefaultTheta == 0

\* np.linspace(start, end, steps): both ends included, a single step is the start
Linspace(start, end, steps) ==
    [i \in 1..steps |->
        IF steps = 1 THEN start ELSE start + ((i - 1) * (end - start)) \div (steps - 1)]

\* params["theta"] after simulate_full_rotation(steps): every generate_sensor_signals
\* of the sweep writes its angle into self.params
ThetaAfterSweep(th, steps) ==
    IF steps < 1 THEN th ELSE Linspace(0, 360, steps)[steps]

\* the three configurations whose analyze_results draws paper_error, as long as
\* self.failed_sensors is empty
DrawsPaperError(n, p) == <<n, p>> \in {<<8, 7>>, <<12, 11>>, <<16, 17>>}

\* a metric that no random value enters
NoDraw == [stream |-> -1, pos |-> -1]

\* the dict run_single_monte_carlo returns, with the random values it consumed.
\* run_params is the dict object that became model.params, so its "theta" is what
\* the sweep left there.  The model's failed_sensors list is still empty when
\* analyze_results runs, so error_max is the paper_error of a model without
\* failures: a function of the last value the run drew (named by its place in the
\* stream), or the constant 0.002.
RunRecord(run_id, rng, draws) ==
    [run_id |-> run_id, num_failures |-> camp.num_failures,
     parameters |-> [theta |-> ThetaAfterSweep(DefaultTheta, camp.steps)],
     error_max |-> IF DrawsPaperError(camp.num_sensors, camp.pole_pairs)
                   THEN [stream |-> rng.stream, pos |-> rng.pos + draws - 1]
                   ELSE NoDraw,
     draws |-> [stream |-> rng.stream, first |-> rng.pos, count |-> draws]]

\* one iteration of the loop of run_monte_carlo_batch in worker w; an exception
\* of run_single_monte_carlo ends the task, the last iteration returns the list
RunSingleMonteCarlo(w) ==
    /\ camp.pc = "map"
    /\ pool[w].task >= 0
    /\ LET b == pool[w].task
           run_id == b * camp.batch_size + Len(batch[b].results)
           draws == DrawsOfRun(camp.num_sensors, camp.pole_pairs, camp.num_failures,
                               camp.steps)
           rng == [pool[w].rng EXCEPT !.pos = @ + draws]
       IN  IF RunRaises(camp.num_sensors, camp.num_failures, camp.steps)
           THEN /\ batch' = [batch EXCEPT ![b].state = "raised"]
                /\ pool' = [pool EXCEPT ![w] = [rng |-> rng, task |-> -1]]
           ELSE LET res == Append(batch[b].results, RunRecord(run_id, pool[w].rng, draws))
                    last == Len(res) = camp.batch_size
                IN  /\ batch' = [batch EXCEPT ![b] =
                                    [state |-> IF last THEN "done" ELSE "running",
                                     results |-> res]]
                    /\ pool' = [pool EXCEPT ![w] =
                                   [rng |-> rng, task |-> IF last THEN -1 ELSE b]]
    /\ UNCHANGED <<camp, all_results, stats, config_results>>
    /\ UNCHANGED <<modelVars, demodVars, adcVars, analyzeVars, posVars, degradeVars, toolVars>>

\* for batch in batch_results: all_results.extend(batch)
RECURSIVE Flatten(_, _)
Flatten(bs, b) == IF b \notin DOMAIN bs THEN << >> ELSE bs[b].results \o Flatten(bs, b + 1)

\* a variant of map that returns as soon as one task has ended
MapReturnsEarly ==
    /\ camp.pc = "map"
    /\ \E b \in DOMAIN batch : batch[b].state \in {"done", "raised"}
    /\ IF \E b \in DOMAIN batch : batch[b].state = "raised"
       THEN /\ camp' = [camp EXCEPT !.pc = "raised"]
            /\ all_results' = all_results
       ELSE /\ camp' = [camp EXCEPT !.pc = "returned"]
            /\ all_results' = Flatten(batch, 0)
    /\ UNCHANGED <<pool, batch, stats, config_results>>
    /\ UNCHANGED <<modelVars, demodVars, adcVars, analyzeVars, posVars, degradeVars, toolVars>>

\* pool.map returns the lists of the batches in the order of param_sets, or
\* raises the exception of a task once all tasks have ended
MapReturns ==
    /\ camp.pc = "map"
    /\ \A b \in DOMAIN batch : batch[b].state \in {"done", "raised"}
    /\ IF \E b \in DOMAIN batch : batch[b].state = "raised"
       THEN /\ camp' = [camp EXCEPT !.pc = "raised"]
            /\ all_results' = all_results
       ELSE /\ camp' = [camp EXCEPT !.pc = "returned"]
            /\ all_results' = Flatten(batch, 0)
    /\ UNCHANGED <<pool, batch, stats, config_results>>
    /\ UNCHANGED <<modelVars, demodVars, adcVars, analyzeVars, posVars, degradeVars, toolVars>>

\* the statistics of one metric: mean, std, min, max, p01 and p99 of the array of
\* values are functions of how often each value occurs in it, which is what is kept
MetricStats(values) ==
    [v \in {values[i] : i \in DOMAIN values} |->
        Cardinality({i \in DOMAIN values : values[i] = v})]

\* analyze_monte_carlo_results(results, output_dir), for error_max
AnalyzeMonteCarloResults ==
    /\ camp.pc = "returned"
    /\ camp' = [camp EXCEPT !.pc = "analyzed"]
    /\ stats' = [empty |-> FALSE,
                 error_max |-> MetricStats([i \in DOMAIN all_results |->
                                               all_results[i].error_max])]
    /\ UNCHANGED <<pool, batch, all_results, config_results>>
    /\ UNCHANGED <<modelVars, demodVars, adcVars, analyzeVars, posVars, degradeVars, toolVars>>

\* config_results[scenario['name']] = stats
StoreStats ==
    /\ camp.pc = "analyzed"
    /\ camp' = [camp EXCEPT !.pc = "stored"]
    /\ config_results' = Append(config_results, stats)
    /\ UNCHANGED <<pool, batch, all_results, stats>>
    /\ UNCHANGED <<modelVars, demodVars, adcVars, analyzeVars, posVars, degradeVars, toolVars>>

CampaignInit ==
    NoModel /\ NoDemod /\ NoAdc /\ NoAnalyze /\ NoCampaign /\ NoPositions /\ NoDegrade /\ NoTools

CampaignNext ==
    \/ \E in \in CampaignInputs, sm \in StartMethods : RunParallelMonteCarlo(in, sm)
    \/ \E w \in DOMAIN pool : TakeTask(w)
    \/ \E w \in DOMAIN pool : RunSingleMonteCarlo(w)
    \/ MapReturns
    \/ AnalyzeMonteCarloResults
    \/ StoreStats

SpecCampaign == CampaignInit /\ [][CampaignNext]_vars

----------------------------------------------------------------------------
(* _calculate_sensor_positions for up to 64 sensors *)

\* largest sensor count whose positions are calculated
MaxPositionSensors == 64

PositionsInit ==
    /\ NoModel /\ NoDemod /\ NoAdc /\ NoAnalyze /\ NoCampaign /\ NoDegrade /\ NoTools
    /\ pos_n \in 1..MaxPositionSensors
    /\ sensor_positions = << >>

\* the loop over range(self.num_sensors), appending one angle per sensor
CalculateSensorPositions ==
    /\ sensor_positions = << >>
    /\ sensor_positions' = [k \in 1..pos_n |-> SensorPosition(k - 1)]
    /\ UNCHANGED <<modelVars, demodVars, adcVars, analyzeVars, campVars, pos_n, degradeVars, toolVars>>

PositionsNext == CalculateSensorPositions

SpecPositions == PositionsInit /\ [][PositionsNext]_vars

----------------------------------------------------------------------------
(* The error reported for a configuration as the number of failed sensors    *)
(* grows: one run per failure count 0, 1, 2, .., either on a model whose      *)
(* failures are set with set_failed_sensors or through run_single_monte_carlo, *)
(* which leaves self.failed_sensors of its model empty.                       *)

DegradeModes == {"set_failed_sensors", "run_single_monte_carlo"}

DegradeInit ==
    /\ NoModel /\ NoDemod /\ NoAdc /\ NoAnalyze /\ NoCampaign /\ NoPositions /\ NoTools
    /\ degrade \in [config : Configs, mode : DegradeModes, errors : {<< >>}]

\* len(self.failed_sensors) when analyze_results runs
KnownFailures(mode, num_failures) ==
    IF mode = "set_failed_sensors" THEN num_failures ELSE 0

\* the run with as many failures as there are runs so far; its error_max
RunWithNextFailureCount(pct) ==
    /\ Len(degrade.errors) <= MaxFailed
    /\ LET num_failures == Len(degrade.errors)
           m == TMRAnalyzeResults(degrade.config[1], degrade.config[2],
                                  KnownFailures(degrade.mode, num_failures), pct)
       IN  degrade' = [degrade EXCEPT !.errors = Append(@, m.error_max)]
    /\ UNCHANGED <<modelVars, demodVars, adcVars, analyzeVars, campVars, posVars, toolVars>>

DegradeNext == \E pct \in UniformDom : RunWithNextFailureCount(pct)

SpecDegrade == DegradeInit /\ [][DegradeNext]_vars

----------------------------------------------------------------------------
(* simulate_full_rotation with the default start_angle and end_angle: the    *)
(* angles of np.linspace(0, 360, steps), one per iteration of its loop.  For  *)
(* the step counts of the model the spacing is at least 27 degrees, so the    *)
(* whole-degree angles are distinct whenever the real ones are.               *)

\* largest steps argument
MaxRotationSteps == 12

RotationInit ==
    /\ NoModel /\ NoDemod /\ NoAdc /\ NoAnalyze /\ NoCampaign /\ NoPositions /\ NoDegrade
    /\ NoMonteCarlo /\ NoComparison /\ NoReport
    /\ rotation \in [cls : Classes, steps : 0..MaxRotationSteps, angles : {<< >>}]

\* one iteration of "for i, angle in enumerate(angles)": the angle handed to
\* generate_sensor_signals
SampleAngle ==
    /\ Len(rotation.angles) < rotation.steps
    /\ rotation' = [rotation EXCEPT !.angles =
                       Append(@, Linspace(0, 360, rotation.steps)[Len(@) + 1])]
    /\ UNCHANGED <<modelVars, demodVars, adcVars, analyzeVars, campVars, posVars, degradeVars,
                   mc, comparison, report>>

RotationNext == SampleAngle

SpecRotation == RotationInit /\ [][RotationNext]_vars

----------------------------------------------------------------------------
(* TMRSensorModel.run_monte_carlo with the default param_tolerances.         *)
(* Amplitudes and the noise level are in thousandths, tolerances and the      *)
(* drawn variations in percent, so that value * (1 + variation) is exact for  *)
(* the values of the model.                                                   *)

\* largest num_runs argument
MaxMcRuns == 2

\* self.params of a freshly constructed model
DefaultParams == [A1 |-> 200, A7 |-> 1000, noise_level |-> 10, theta |-> DefaultTheta]

\* the default param_tolerances
ParamTolerances == [A1 |-> 10, A7 |-> 10, noise_level |-> 20]

\* draws of np.random.uniform(-tolerance, tolerance)
VariationDom(tolerance) == {0 - tolerance, tolerance \div 2}

MonteCarloInit ==
    /\ NoModel /\ NoDemod /\ NoAdc /\ NoAnalyze /\ NoCampaign /\ NoPositions /\ NoDegrade
    /\ NoRotation /\ NoComparison /\ NoReport
    /\ \E th \in {0, 360}, num_runs \in 0..MaxMcRuns, steps \in {0, 1, 2} :
          mc = [pc |-> "idle", params |-> [DefaultParams EXCEPT !.theta = th],
                before |-> [DefaultParams EXCEPT !.theta = th],
                num_runs |-> num_runs, steps |-> steps,
                original_params |-> << >>, mc_params |-> << >>]

\* original_params = self.params.copy()
RunMonteCarlo ==
    /\ mc.pc = "idle"
    /\ mc' = [mc EXCEPT !.pc = "running", !.original_params = mc.params]
    /\ UNCHANGED <<modelVars, demodVars, adcVars, analyzeVars, campVars, posVars, degradeVars,
                   rotation, comparison, report>>

\* a variant that varies the parameters the model holds when the run starts
DrawBaseCurrentParams(m) == m.params

\* the dict whose items the parameter loop of a run iterates over
DrawBase(m) == m.original_params

\* run_params of one run for the drawn variations
RunParams(base, variation) ==
    [param \in DOMAIN base |->
        IF param \in DOMAIN ParamTolerances
        THEN (base[param] * (100 + variation[param])) \div 100
        ELSE base[param]]

\* one iteration of the loop: draw run_params, append a copy of it to
\* mc_results["params"], make it self.params and sweep, which writes every angle
\* into it; analyze_results raises ValueError on the empty sweep of steps = 0
MonteCarloRun ==
    /\ mc.pc = "running"
    /\ Len(mc.mc_params) < mc.num_runs
    /\ \E variation \in [A1 : VariationDom(ParamTolerances.A1),
                         A7 : VariationDom(ParamTolerances.A7),
                         noise_level : VariationDom(ParamTolerances.noise_level)] :
          LET run_params == RunParams(DrawBase(mc), variation)
          IN  mc' = [mc EXCEPT !.mc_params = Append(@, run_params),
                               !.params = [run_params EXCEPT
                                              !.theta = ThetaAfterSweep(@, mc.steps)],
                               !.pc = IF mc.steps < 1 THEN "raised" ELSE "running"]
    /\ UNCHANGED <<modelVars, demodVars, adcVars, analyzeVars, campVars, posVars, degradeVars,
                   rotation, comparison, report>>

\* self.params = original_params; return mc_results
MonteCarloReturn ==
    /\ mc.pc = "running"
    /\ Len(mc.mc_params) = mc.num_runs
    /\ mc' = [mc EXCEPT !.params = mc.original_params, !.pc = "returned"]
    /\ UNCHANGED <<modelVars, demodVars, adcVars, analyzeVars, campVars, posVars, degradeVars,
                   rotation, comparison, report>>

MonteCarloNext == RunMonteCarlo \/ MonteCarloRun \/ MonteCarloReturn

SpecMonteCarlo == MonteCarloInit /\ [][MonteCarloNext]_vars

----------------------------------------------------------------------------
(* generate_comparative_analysis: the validation summary of one              *)
(* configuration.  A scenario is named by its num_failures in FAULT_SCENARIOS *)
(* (0 is "No Failures"); overall_results[config] is a function from the      *)
(* scenarios that were executed to their mean resolution_bits_p99 in whole    *)
(* bits.                                                                      *)

\* num_failures of FAULT_SCENARIOS
FaultScenarios == 0..3

\* mean resolution_bits_p99 of a scenario
ResolutionDom == {13, 14, 17}

ComparisonInit ==
    /\ NoModel /\ NoDemod /\ NoAdc /\ NoAnalyze /\ NoCampaign /\ NoPositions /\ NoDegrade
    /\ NoRotation /\ NoMonteCarlo /\ NoReport
    /\ \E executed \in SUBSET FaultScenarios :
       \E resolution \in [executed -> ResolutionDom] :
          comparison = [pc |-> "called", overall_results |-> resolution,
                        validates_resolution |-> FALSE, max_failures |-> 0]

\* the loop over the scenarios of a configuration: the largest num_failures of a
\* scenario other than "No Failures" whose resolution is at least 14 bits, 0
\* without one
MaxFailures(resolution) ==
    LET acceptable == {f \in DOMAIN resolution : f # 0 /\ resolution[f] >= 14}
    IN  IF acceptable = {} THEN 0
        ELSE CHOOSE m \in acceptable : \A f \in acceptable : f <= m

\* the two lines written for the configuration: the fault tolerance claim is
\* reported as validated "with up to max_failures failed sensors" iff max_failures > 0
GenerateComparativeAnalysis ==
    /\ comparison.pc = "called"
    /\ comparison' = [comparison EXCEPT
          !.pc = "written",
          !.validates_resolution =
              0 \in DOMAIN comparison.overall_results /\ comparison.overall_results[0] >= 17,
          !.max_failures = MaxFailures(comparison.overall_results)]
    /\ UNCHANGED <<modelVars, demodVars, adcVars, analyzeVars, campVars, posVars, degradeVars,
                   rotation, mc, report>>

ComparisonNext == GenerateComparativeAnalysis

SpecComparison == ComparisonInit /\ [][ComparisonNext]_vars

----------------------------------------------------------------------------
(* results/process_data.py main.  Every process_* function returns a         *)
(* metrics dict, or None when reading or processing its file failed; main    *)
(* stores what it returned under the file name.                              *)

\* the .raw files a directory can hold
RawFiles == {"angular_resolution.raw", "fault_tolerance_1sensor.raw",
             "speed_30000rpm.raw", "speed_1000rpm.raw"}

\* the keys the validation section looks up in results, in the order of the lookups
KeyFiles == <<"angular_resolution.raw", "fault_tolerance_1sensor.raw",
              "fault_tolerance_2sensors.raw", "speed_30000rpm.raw",
              "config_8_7.raw", "config_8_5.raw", "config_8_11.raw">>

\* the validation lines written before the k-th lookup
LinesBeforeLookup == <<0, 1, 1, 2, 3, 3, 3>>

ReportInit ==
    /\ NoModel /\ NoDemod /\ NoAdc /\ NoAnalyze /\ NoCampaign /\ NoPositions /\ NoDegrade
    /\ NoRotation /\ NoMonteCarlo /\ NoComparison
    /\ \E present \in SUBSET RawFiles :
       \E processed \in [present -> {"metrics", "None"}] :
          report = [pc |-> "called", results |-> processed, exc |-> "none",
                    sections |-> << >>, validation_lines |-> 0]

\* results.get(key, {}).get(..): the default {} is used for a missing key only; a
\* key stored with None returns None, and None has no get
LookupRaises(res, key) == key \in DOMAIN res /\ res[key] = "None"

\* main from the report on: one section per entry of results, then the four
\* validation lines, up to the first lookup that raises AttributeError
Main ==
    /\ report.pc = "called"
    /\ LET failing == {k \in 1..Len(KeyFiles) : LookupRaises(report.results, KeyFiles[k])}
           first == IF failing = {} THEN 0
                    ELSE CHOOSE k \in failing : \A j \in failing : k <= j
       IN  report' = [report EXCEPT
              !.pc = IF first = 0 THEN "returned" ELSE "raised",
              !.exc = IF first = 0 THEN "none" ELSE "AttributeError",
              !.sections = [f \in DOMAIN report.results |->
                               IF report.results[f] = "None"
                               THEN "Error processing file" ELSE "metrics"],
              !.validation_lines = IF first = 0 THEN 4 ELSE LinesBeforeLookup[first]]
    /\ UNCHANGED <<modelVars, demodVars, adcVars, analyzeVars, campVars, posVars, degradeVars,
                   rotation, mc, comparison>>

ReportNext == Main

SpecReport == ReportInit /\ [][ReportNext]_vars

----------------------------------------------------------------------------
(* Properties of the sensor model object (Spec) *)

\* C1: on a model with at least two sensors, whenever the last call returned
\* normally the number of failed sensors is strictly below the sensor count
C1_FewerFailedThanSensors ==
    (cls # "none" /\ num_sensors >= 2 /\ call.exc = "none")
        => Cardinality(failed_sensors) < num_sensors

\* C2: set_failed_sensors(count) with count >= N ends with an error
C2_TooManyFailuresRejected ==
    (call.op = "set_failed_sensors" /\ num_sensors >= 2 /\ call.arg >= num_sensors)
        => call.exc # "none"

\* C3: a constructed model has at least two sensors and a harmonic order of at least 1
C3_InvalidConfigurationRejected ==
    cls # "none" => (num_sensors >= 2 /\ pole_pairs >= 1)

\* C4: right after generate_sensor_signals, every sensor of self.failed_sensors
\* reads 0 in the raw, conditioned and digitized dicts of the model, and every
\* sensor failed by the wrapper of run_single_monte_carlo reads 0 in self.signals
C4_FailedSensorsReadZero ==
    call.op = "generate_sensor_signals" =>
        /\ \A i \in failed_sensors :
              /\ heap[signals][i] = 0
              /\ cls = "RefinedTMRSensorModel" =>
                    (heap[conditioned_signals][i] = 0 /\ heap[digitized_signals][i] = 0)
        /\ \A i \in wrapper.failed_sensors : heap[signals][i] = 0

\* a generated vector of a wrapped model with a failed and a live, non-zero sensor
C4_Witness ==
    /\ call.op = "generate_sensor_signals"
    /\ wrapper.installed
    /\ wrapper.failed_sensors # {}
    /\ \E i \in Sensors(num_sensors) \ wrapper.failed_sensors : heap[signals][i] # 0

\* C14: extract_harmonics never returns a result when no sensor is active
C14_NoResultWithoutActiveSensor ==
    (call.op = "extract_harmonics" /\ call.exc = "none" /\ num_sensors >= 2)
        => results.active_sensor_count >= 1

\* C15: the demodulator divides by the number of sensors that are neither failed
\* in the model nor zeroed by the wrapper of run_single_monte_carlo
C15_NormalizedByActiveSensors ==
    (call.op = "extract_harmonics" /\ call.exc = "none") =>
        results.active_sensor_count =
            num_sensors - Cardinality(failed_sensors \cup wrapper.failed_sensors)

----------------------------------------------------------------------------
(* Properties of the demodulator (SpecDemod) *)

C18_NoiselessRoundTrip ==
    (/\ ~demod_out.empty
     /\ demod_in.theta < 360
     /\ demod_in.error_randomness = 0
     /\ demod_in.cls = "RefinedTMRSensorModel" =>
            (demod_in.pole_pairs = 1 /\ demod_in.harm_phase = demod_in.fund_phase))
        => demod_out.unwrapped = demod_in.theta

----------------------------------------------------------------------------
(* Properties of the ADC conversion (SpecAdc) *)

\* C6: converting the output of a conversion returns that output
C6_DigitizeIdempotent ==
    Len(adc_out) >= 2 => adc_out[2] = adc_out[1]

----------------------------------------------------------------------------
(* Properties of analyze_results (SpecAnalyze) *)

\* C7: no metrics dict holds an infinite resolution
C7_ResolutionFinite ==
    ~metrics.empty => (~metrics.resolution_bits_max.inf /\ ~metrics.resolution_bits_p99.inf)

\* C17: the error_max of the metrics is the largest |error| of the sweep's array
C17_MetricsFromSweepErrors ==
    ~metrics.empty => metrics.error_max = ErrorMax(sweep.error_data)

----------------------------------------------------------------------------
(* Properties of the campaign (SpecCampaign) *)

\* every run record of the batches, finished or not
RunRecords == UNION {{batch[b].results[i] : i \in DOMAIN batch[b].results} : b \in DOMAIN batch}

\* C8: no batch ends with an exception and run_parallel_monte_carlo never raises
C8_RunFailureNeverAborts ==
    /\ camp.pc # "raised"
    /\ \A b \in DOMAIN batch : batch[b].state # "raised"

\* C9: the returned list has num_runs records, with run_id 0 .. num_runs - 1 in order
C9_ExactlyNumRuns ==
    camp.pc = "returned" =>
        /\ Len(all_results) = camp.num_runs
        /\ \A i \in DOMAIN all_results : all_results[i].run_id = i - 1

\* C10: two runs with different indices consume no random value in common
C10_RunsHaveOwnStreams ==
    \A r1 \in RunRecords : \A r2 \in RunRecords :
        r1.run_id # r2.run_id =>
            ~ /\ r1.draws.stream = r2.draws.stream
              /\ r1.draws.first < r2.draws.first + r2.draws.count
              /\ r2.draws.first < r1.draws.first + r1.draws.count

\* the record of run run_id when batch b runs on worker (b mod workers) + 1 as that
\* worker's (b div workers)-th task
RoundRobinRecord(run_id) ==
    LET b == run_id \div camp.batch_size
        w == (b % camp.workers) + 1
        earlier == (b \div camp.workers) * camp.batch_size + (run_id % camp.batch_size)
        draws == DrawsOfRun(camp.num_sensors, camp.pole_pairs, camp.num_failures, camp.steps)
        rng0 == WorkerRng(camp.start_method, w)
    IN  RunRecord(run_id, [rng0 EXCEPT !.pos = @ + earlier * draws], draws)

\* C11: the statistics of a pair are those of the round-robin assignment of its
\* batches, whatever worker ran which batch and in whatever order they ended
C11_StatsIndependentOfAssignment ==
    camp.pc \in {"analyzed", "stored"} =>
        stats.error_max = MetricStats([i \in DOMAIN all_results |->
                                          RoundRobinRecord(i - 1).error_max])

\* the steps of a pair in the order of the program
CampaignOrder ==
    {<<"configured", "map">>, <<"map", "returned">>, <<"map", "raised">>,
     <<"returned", "analyzed">>, <<"analyzed", "stored">>}

\* C12: a pair goes from configured to running (map), aggregating (returned, then
\* analyzed) and complete (stored) in that order; when analyze_monte_carlo_results
\* starts every batch has returned its whole list, and the statistics are stored
\* only after it has computed them
C12_CampaignStateOrder ==
    [][/\ camp.pc # camp'.pc => <<camp.pc, camp'.pc>> \in CampaignOrder
       /\ camp'.pc \in {"returned", "analyzed", "stored"} =>
              /\ \A b \in DOMAIN batch' :
                     /\ batch'[b].state = "done"
                     /\ Len(batch'[b].results) = camp'.batch_size
              /\ all_results' = Flatten(batch', 0)
       /\ stats' # stats => (camp.pc = "returned" /\ camp'.pc = "analyzed")
       /\ config_results' # config_results =>
              (camp.pc = "analyzed" /\ config_results' = <<stats>>)]_vars

\* C16: the "theta" of the parameters reported with a run is the value the
\* parameter record was created with
C16_ReportedParametersAsDrawn ==
    \A r \in RunRecords : r.parameters.theta = DefaultTheta

\* a pair of several batches whose statistics have been stored
C12_Witness ==
    /\ camp.pc = "stored"
    /\ camp.num_batches >= 2
    /\ config_results = <<stats>>
    /\ ~stats.empty

\* C13: once a batch has been lost to an exception and the pool has ended, the
\* campaign is in a partial state and its result holds the record of every run
\* that finished
C13_PartialKeepsFinishedRuns ==
    (camp.pc \notin {"configured", "map"} /\ \E b \in DOMAIN batch : batch[b].state = "raised")
        => /\ camp.pc = "partial"
           /\ \A r \in RunRecords : \E i \in DOMAIN all_results : all_results[i] = r

----------------------------------------------------------------------------
(* Properties of the sensor positions (SpecPositions) *)

\* C19: the calculated positions of up to 64 sensors are pairwise distinct
C19_PositionsDistinct ==
    \A i \in DOMAIN sensor_positions : \A j \in DOMAIN sensor_positions :
        i # j => sensor_positions[i] # sensor_positions[j]

\* the positions of the largest array, with its second sensor at 137.5 degrees
C19_Witness ==
    /\ pos_n = MaxPositionSensors
    /\ Len(sensor_positions) = pos_n
    /\ sensor_positions[2] = GoldenAngle

----------------------------------------------------------------------------
(* Properties of the degradation with failed sensors (SpecDegrade) *)

\* C20: the reported error never decreases from one failure count to a larger one
C20_MonotonicDegradation ==
    \A i \in DOMAIN degrade.errors : \A j \in DOMAIN degrade.errors :
        i < j => degrade.errors[i] <= degrade.errors[j]

----------------------------------------------------------------------------
(* Signal synthesis *)

\* C21: signal synthesis is a function of its inputs: a call of
\* generate_sensor_signals that directly follows another one on the same model,
\* with the same angle, the same parameters and the same failed sensors, leaves
\* the same signal dicts as the first call did.  (The method has no seed
\* argument; the noise is drawn from numpy's global generator.)
C21_SynthesisDeterministic ==
    [][(/\ call.op = "generate_sensor_signals"
        /\ call'.op = "generate_sensor_signals"
        /\ theta' = theta)
       => heap' = heap]_vars

----------------------------------------------------------------------------
(* Properties of a full-rotation sweep (SpecRotation) *)

\* C22: every angle a full-rotation sweep has sampled lies in [0, 360), so 360
\* is never sampled, and no two samples are the same physical angle (equal
\* modulo 360).
C22_FullRotationAngles ==
    \A j \in 1..Len(rotation.angles) :
        /\ 0 <= rotation.angles[j]
        /\ rotation.angles[j] < 360
        /\ \A k \in 1..Len(rotation.angles) :
              k # j => PyMod(rotation.angles[k], 360) # PyMod(rotation.angles[j], 360)

----------------------------------------------------------------------------
(* Ranges of a demodulation result (SpecDemod) *)

\* C23: the unwrapped angle stored in a demodulation result lies in [0, 360),
\* for every true angle of a sweep and every noise draw.
C23_UnwrappedInRange ==
    demod_out # NoResults => (0 <= demod_out.unwrapped /\ demod_out.unwrapped < 360)

\* C24: in a demodulation result the fundamental phase, the harmonic phase and
\* the phase difference lie in [0, 360), and the sector is one of 0 .. P - 1.
C24_PhasesAndSectorInRange ==
    demod_out # NoResults =>
        /\ 0 <= demod_out.fund_phase /\ demod_out.fund_phase < 360
        /\ 0 <= demod_out.harm_phase /\ demod_out.harm_phase < 360
        /\ 0 <= demod_out.phase_diff /\ demod_out.phase_diff < 360
        /\ demod_out.sector \in 0..(demod_in.pole_pairs - 1)

----------------------------------------------------------------------------
(* Frame of the sensor model object (Spec) *)

\* C25: once a model is constructed no operation changes its sensor positions,
\* and a call of set_failed_sensors changes no field of the model other than
\* the failed set.
C25_PositionsFramed ==
    [][/\ cls # "none" => positions' = positions
       /\ call'.op = "set_failed_sensors" =>
             UNCHANGED <<cls, positions, num_sensors, pole_pairs, heap, signals,
                         conditioned_signals, digitized_signals, results, theta, wrapper>>]_vars

\* a refined model with toleranced positions, signals and a demodulation result
\* whose failed sensors have just been set
C25_Witness ==
    /\ cls = "RefinedTMRSensorModel"
    /\ num_sensors = MaxSensors
    /\ positions = InitialPositions(cls, num_sensors, [i \in Sensors(num_sensors) |-> -2])
    /\ heap[signals] # EmptyDict
    /\ results # NoResults
    /\ call = Returned("set_failed_sensors", 1)
    /\ failed_sensors # {}

----------------------------------------------------------------------------
(* Quantization levels of the ADC conversion (SpecAdc) *)

\* C26: the digitized value of a conditioned input is one of exactly 2^bits
\* quantization levels: the code k * lsb_size of some k in 0 .. 2^bits - 1,
\* divided by the gain.
C26_AtMostAdcStepsCodes ==
    Len(adc_out) >= 1 =>
        adc_out[1] \in {(k * LsbSize) \div Gain : k \in 0..(AdcSteps - 1)}

----------------------------------------------------------------------------
(* Properties of TMRSensorModel.run_monte_carlo (SpecMonteCarlo) *)

\* C27: every run's A1, A7 and noise_level lie within the tolerance around the
\* value the model had before the call, every parameter without a tolerance
\* (theta) has the value it had before the call, and when run_monte_carlo
\* returns, the model's params are the ones it had before the call.
C27_RunsDrawnAroundNominal ==
    /\ \A k \in 1..Len(mc.mc_params) :
          \A param \in DOMAIN mc.before :
             IF param \in DOMAIN ParamTolerances
             THEN /\ mc.before[param] * (100 - ParamTolerances[param])
                        <= mc.mc_params[k][param] * 100
                  /\ mc.mc_params[k][param] * 100
                        <= mc.before[param] * (100 + ParamTolerances[param])
             ELSE mc.mc_params[k][param] = mc.before[param]
    /\ mc.pc = "returned" => mc.params = mc.before

\* a call that returned after two runs with different draws, each of which
\* swept the model to 360 degrees, on a model that stood at 0
C27_Witness ==
    /\ mc.pc = "returned"
    /\ mc.steps = 2
    /\ mc.before.theta = 0
    /\ Len(mc.mc_params) >= 2
    /\ mc.mc_params[1].A1 < mc.before.A1
    /\ mc.mc_params[2].A1 > mc.before.A1
    /\ mc.params = mc.before

----------------------------------------------------------------------------
(* Call protocol of the sensor model object (Spec) *)

\* C28: extract_harmonics returns a result only if generate_sensor_signals was
\* called before it (self.signals is filled by that method alone), and
\* calculate_improved_unwrapped_angle returns only if extract_harmonics succeeded
\* before it (self.results is filled by that method alone); a call made too
\* early raises ValueError and leaves the signals and the results as they were.
C28_CallProtocol ==
    [][/\ (call'.op = "extract_harmonics" /\ call'.exc = "none")
             => heap[signals] # EmptyDict
       /\ (call'.op = "extract_harmonics" /\ heap[signals] = EmptyDict)
             => /\ call'.exc = "ValueError"
                /\ UNCHANGED <<heap, signals, conditioned_signals, digitized_signals, results>>
       /\ (call'.op = "calculate_improved_unwrapped_angle" /\ call'.exc = "none")
             => results # NoResults
       /\ (call'.op = "calculate_improved_unwrapped_angle" /\ results = NoResults)
             => /\ call'.exc = "ValueError"
                /\ UNCHANGED <<heap, signals, conditioned_signals, digitized_signals, results>>]_vars

\* calculate_improved_unwrapped_angle has returned on a model with signals and a result
C28_Witness ==
    /\ cls = "TMRSensorModel"
    /\ call = Returned("calculate_improved_unwrapped_angle", 0)
    /\ heap[signals] # EmptyDict
    /\ results # NoResults

----------------------------------------------------------------------------
(* Properties of generate_comparative_analysis (SpecComparison) *)

\* C29: a configuration is reported as validating fault tolerance with up to m
\* failed sensors only if every executed scenario with 1 .. m failures has a
\* mean p99 resolution of at least 14 bits.
C29_ReportedFailuresAllPass ==
    (comparison.pc = "written" /\ comparison.max_failures > 0) =>
        \A f \in DOMAIN comparison.overall_results :
            (1 <= f /\ f <= comparison.max_failures) => comparison.overall_results[f] >= 14

----------------------------------------------------------------------------
(* Properties of process_data.main (SpecReport) *)

\* C30: for every combination of succeeded and failed raw files, main reports
\* each failed file as "Error processing file", writes all four lines of the
\* paper-claims validation section and does not raise.
C30_ReportCompleteDespiteFailures ==
    report.pc # "called" =>
        /\ \A f \in DOMAIN report.results :
              report.results[f] = "None" => report.sections[f] = "Error processing file"
        /\ report.validation_lines = 4
        /\ report.exc = "none"

====
